---- MODULE Spec2Model ----
(***************************************************************************)
(* A model of the string builtins of boa_engine                            *)
(* (boa_engine/src/builtins/string/mod.rs): String.prototype.replace,      *)
(* String.prototype.replaceAll and the abstract operation GetSubstitution. *)
(* Strings are sequences of UTF-16 code units (naturals below 2^16);       *)
(* indices in the definitions are the 0-based indices of the source.       *)
(***************************************************************************)
EXTENDS Integers, Sequences, FiniteSets, TLC

(***************************************************************************)
(* Bounds of the model.                                                    *)
(***************************************************************************)
\* longest source string of replace / replaceAll
MaxLen == 3
\* longest search string of replace / replaceAll
MaxSearchLen == 2
\* longest replacement template handed to GetSubstitution on its own
MaxTemplLen == 3
\* the largest capture count tried (two-digit references need ten or more)
MaxCaps == 10
\* a cap on the length of matchPositions; never reached by the code
MaxMatches == 6

(***************************************************************************)
(* Code units the source names.                                            *)
(***************************************************************************)
Dollar == 36
Ampersand == 38
Apostrophe == 39
LessThan == 60
GreaterThan == 62
Backtick == 96

\* Option::None of an index (the -1 of StringIndexOf)
NONE == -1

(***************************************************************************)
(* Sequences of code units.                                                *)
(***************************************************************************)
\* all sequences over S of length at most n
SeqsUpTo(S, n) == UNION {[1..k -> S] : k \in 0..n}

\* &s[a..b] of the source, 0-based and half open (callers keep a <= b <= len)
Slice(s, a, b) == SubSeq(s, a + 1, b)

\* &s[a..]
SliceFrom(s, a) == SubSeq(s, a + 1, Len(s))

\* whether t occurs in s at the 0-based index i
OccursAt(s, t, i) ==
    /\ i >= 0
    /\ i + Len(t) <= Len(s)
    /\ \A k \in 1..Len(t) : s[i + k] = t[k]

\* JsString::index_of (StringIndexOf): the leftmost occurrence at or after
\* from_index; the empty search value is found at from_index while that is
\* at most the length
StringIndexOf(s, search_value, from_index) ==
    IF Len(search_value) = 0
    THEN IF from_index <= Len(s) THEN from_index ELSE NONE
    ELSE LET hits == {i \in from_index..(Len(s) - Len(search_value)) :
                          OccursAt(s, search_value, i)}
         IN IF hits = {} THEN NONE
            ELSE CHOOSE i \in hits : \A j \in hits : i <= j

(***************************************************************************)
(* Code points: JsString::to_code_points and CodePoint::encode_utf16.      *)
(***************************************************************************)
\* a slip: a high surrogate pairs with any surrogate after it
IsAnySurrogate(u) == u >= 55296 /\ u <= 57343

IsHighSurrogate(u) == u >= 55296 /\ u <= 56319
IsLowSurrogate(u) == u >= 56320 /\ u <= 57343

\* CodePoint::Unicode(c)
Unicode(c) == [uni |-> TRUE, cp |-> c]
\* CodePoint::UnpairedSurrogate(u)
UnpairedSurrogate(u) == [uni |-> FALSE, cp |-> u]

RECURSIVE DecodeFrom(_, _)
DecodeFrom(s, i) ==
    IF i > Len(s) THEN <<>>
    ELSE IF IsHighSurrogate(s[i]) /\ i < Len(s) /\ IsLowSurrogate(s[i + 1])
         THEN <<Unicode(65536 + (s[i] - 55296) * 1024 + (s[i + 1] - 56320))>>
                  \o DecodeFrom(s, i + 2)
         ELSE IF IsHighSurrogate(s[i]) \/ IsLowSurrogate(s[i])
              THEN <<UnpairedSurrogate(s[i])>> \o DecodeFrom(s, i + 1)
              ELSE <<Unicode(s[i])>> \o DecodeFrom(s, i + 1)

\* the token sequence of a string
ToCodePoints(s) == DecodeFrom(s, 1)

\* the code units of one token
EncodeUtf16(c) ==
    IF c.uni /\ c.cp >= 65536
    THEN <<55296 + ((c.cp - 65536) \div 1024), 56320 + ((c.cp - 65536) % 1024)>>
    ELSE <<c.cp>>

RECURSIVE EncodeAll(_, _, _)
\* the code units of the tokens toks[i..j]
EncodeAll(toks, i, j) ==
    IF i > j THEN <<>> ELSE EncodeUtf16(toks[i]) \o EncodeAll(toks, i + 1, j)

\* char::is_digit(10) on a token
IsDigitToken(c) == c.uni /\ c.cp >= 48 /\ c.cp <= 57
\* char::to_digit(10)
ToDigit(c) == c.cp - 48

(***************************************************************************)
(* JavaScript values GetSubstitution reads.                                *)
(***************************************************************************)
\* a capture: undefined, or a string
UndefinedValue == [kind |-> "undefined", s |-> <<>>]
StringValue(s) == [kind |-> "string", s |-> s]
\* a property whose Get or ToString throws
ThrowingValue == [kind |-> "throws", s |-> <<>>]

\* namedCaptures: undefined, or an object (a function from names to values)
NoNamedCaptures == [def |-> FALSE, props |-> <<>>]
NamedCapturesObject(props) == [def |-> TRUE, props |-> props]

\* named_captures.get(group_name): an absent property is undefined
NamedGet(obj, name) ==
    IF name \in DOMAIN obj.props THEN obj.props[name] ELSE UndefinedValue

\* JsResult<JsString>
Ok(s) == [ok |-> TRUE, val |-> s]
Err(e) == [ok |-> FALSE, val |-> e]

\* the least index j in from..Len(toks) with toks[j] = '>', or 0
ScanForGt(toks, from) ==
    LET js == {j \in from..Len(toks) : toks[j] = Unicode(GreaterThan)}
    IN IF js = {} THEN 0 ELSE CHOOSE j \in js : \A k \in js : j <= k

(***************************************************************************)
(* GetSubstitution: one escape or one literal code point at token i.       *)
(* The result is the text to append (emit), the index of the next token    *)
(* to read (next) and whether a named-capture lookup threw (ok).           *)
(***************************************************************************)
\* a slip: the bound test is off by one, so `$m` is not a reference
OneDigitArmOffByOne(captures, second) ==
    LET m == Len(captures)
        n == ToDigit(second)
    IN IF n = 0 \/ n >= m
       THEN <<Dollar, second.cp>>
       ELSE IF captures[n].kind = "string" THEN captures[n].s ELSE <<>>

\* the `$n` arm: second is a decimal digit, third is not
OneDigitArm(captures, second) ==
    LET m == Len(captures)
        n == ToDigit(second)
    IN IF n = 0 \/ n > m
       THEN <<Dollar, second.cp>>
       ELSE IF captures[n].kind = "string" THEN captures[n].s ELSE <<>>

\* a slip: an nn out of range falls back to the one-digit rule for the
\* first digit, the second digit staying literal text
TwoDigitArmFallsBack(captures, second, third) ==
    LET m == Len(captures)
        nn == 10 * ToDigit(second) + ToDigit(third)
    IN IF nn = 0 \/ nn > m
       THEN OneDigitArm(captures, second) \o <<third.cp>>
       ELSE IF captures[nn].kind = "string" THEN captures[nn].s ELSE <<>>

\* the `$nn` arm: second and third are both decimal digits
TwoDigitArm(captures, second, third) ==
    LET m == Len(captures)
        nn == 10 * ToDigit(second) + ToDigit(third)
    IN IF nn = 0 \/ nn > m
       THEN <<Dollar, second.cp, third.cp>>
       ELSE IF captures[nn].kind = "string" THEN captures[nn].s ELSE <<>>

\* a slip: the tail starts at the match, not after it
TailArmFromPosition(matched, str, position) ==
    IF position < Len(str) THEN SliceFrom(str, position) ELSE <<>>

\* the `$'` arm
TailArm(matched, str, position) ==
    LET tail_pos == position + Len(matched)
    IN IF tail_pos < Len(str) THEN SliceFrom(str, tail_pos) ELSE <<>>

\* a slip: without namedCaptures the name and its `>` are skipped as well
NamedArmSkipsName(named_captures, toks, i) ==
    LET j == ScanForGt(toks, i + 2)
    IN IF ~named_captures.def
       THEN [emit |-> <<Dollar, LessThan>>,
             next |-> IF j = 0 THEN i + 2 ELSE j + 1, ok |-> TRUE]
       ELSE IF j = 0
       THEN [emit |-> <<Dollar, LessThan>> \o EncodeAll(toks, i + 2, Len(toks)),
             next |-> Len(toks) + 1, ok |-> TRUE]
       ELSE LET capture == NamedGet(named_captures, EncodeAll(toks, i + 2, j - 1))
            IN [emit |-> IF capture.kind = "string" THEN capture.s ELSE <<>>,
                next |-> j + 1,
                ok |-> capture.kind # "throws"]

\* a slip: without a closing `>` only `$<` is taken and the scan goes on
\* after it
NamedArmResumes(named_captures, toks, i) ==
    LET j == ScanForGt(toks, i + 2)
    IN IF ~named_captures.def \/ j = 0
       THEN [emit |-> <<Dollar, LessThan>>, next |-> i + 2, ok |-> TRUE]
       ELSE LET capture == NamedGet(named_captures, EncodeAll(toks, i + 2, j - 1))
            IN [emit |-> IF capture.kind = "string" THEN capture.s ELSE <<>>,
                next |-> j + 1,
                ok |-> capture.kind # "throws"]

\* the `$<` arm, reading the tokens after `$<` (from index i + 2)
NamedArm(named_captures, toks, i) ==
    IF ~named_captures.def
    THEN [emit |-> <<Dollar, LessThan>>, next |-> i + 2, ok |-> TRUE]
    ELSE LET j == ScanForGt(toks, i + 2)
         IN IF j = 0
            THEN [emit |-> <<Dollar, LessThan>> \o EncodeAll(toks, i + 2, Len(toks)),
                  next |-> Len(toks) + 1, ok |-> TRUE]
            ELSE LET capture == NamedGet(named_captures, EncodeAll(toks, i + 2, j - 1))
                 IN [emit |-> IF capture.kind = "string" THEN capture.s ELSE <<>>,
                     next |-> j + 1,
                     ok |-> capture.kind # "throws"]

\* a slip: an unpaired surrogate in the template is copied as U+FFFD
LiteralArmLossy(first) == IF first.uni THEN EncodeUtf16(first) ELSE <<65533>>

\* a code point other than `$`: first.encode_utf16
LiteralArm(first) == EncodeUtf16(first)

\* a slip: the code point after the `$` is consumed and lost
DefaultArmDropsSecond(has_second, second) == <<Dollar>>

\* the last arm: `$` followed by nothing, or by a code point that starts no
\* escape
DefaultArm(has_second, second) ==
    <<Dollar>> \o (IF has_second THEN EncodeUtf16(second) ELSE <<>>)

SubstStep(matched, str, position, captures, named_captures, toks, i) ==
    LET first == toks[i]
        n == Len(toks)
        has_second == i + 1 <= n
        second == toks[i + 1]
        second_is_digit == has_second /\ IsDigitToken(second)
        has_third == second_is_digit /\ i + 2 <= n
        third == toks[i + 2]
        third_is_digit == has_third /\ IsDigitToken(third)
    IN IF first # Unicode(Dollar)
       THEN [emit |-> LiteralArm(first), next |-> i + 1, ok |-> TRUE]
       ELSE IF has_second /\ second = Unicode(Dollar)
       THEN [emit |-> <<Dollar>>, next |-> i + 2, ok |-> TRUE]
       ELSE IF has_second /\ second = Unicode(Ampersand)
       THEN [emit |-> matched, next |-> i + 2, ok |-> TRUE]
       ELSE IF has_second /\ second = Unicode(Backtick)
       THEN [emit |-> Slice(str, 0, position), next |-> i + 2, ok |-> TRUE]
       ELSE IF has_second /\ second = Unicode(Apostrophe)
       THEN [emit |-> TailArm(matched, str, position), next |-> i + 2, ok |-> TRUE]
       ELSE IF second_is_digit /\ third_is_digit
       THEN [emit |-> TwoDigitArm(captures, second, third), next |-> i + 3, ok |-> TRUE]
       ELSE IF second_is_digit
       THEN [emit |-> OneDigitArm(captures, second), next |-> i + 2, ok |-> TRUE]
       ELSE IF has_second /\ second = Unicode(LessThan)
       THEN NamedArm(named_captures, toks, i)
       ELSE [emit |-> DefaultArm(has_second, second), next |-> i + 2, ok |-> TRUE]

RECURSIVE SubstLoop(_, _, _, _, _, _, _, _)
\* the while loop over the code points of the replacement, from token i on
SubstLoop(matched, str, position, captures, named_captures, toks, i, result) ==
    IF i > Len(toks) THEN Ok(result)
    ELSE LET step == SubstStep(matched, str, position, captures, named_captures, toks, i)
         IN IF ~step.ok THEN Err("named capture")
            ELSE SubstLoop(matched, str, position, captures, named_captures,
                           toks, step.next, result \o step.emit)

\* a slip: the output of the pass is scanned once more
GetSubstitutionRescans(matched, str, position, captures, named_captures, replacement) ==
    LET once == SubstLoop(matched, str, position, captures, named_captures,
                          ToCodePoints(replacement), 1, <<>>)
    IN IF ~once.ok THEN once
       ELSE SubstLoop(matched, str, position, captures, named_captures,
                      ToCodePoints(once.val), 1, <<>>)

\* get_substitution(matched, str, position, captures, named_captures, replacement)
GetSubstitution(matched, str, position, captures, named_captures, replacement) ==
    SubstLoop(matched, str, position, captures, named_captures,
              ToCodePoints(replacement), 1, <<>>)

(***************************************************************************)
(* State.                                                                  *)
(***************************************************************************)
VARIABLES
    \* a call of String.prototype.replace or String.prototype.replaceAll:
    \* the method (op), its arguments after steps 1 to 5, the place the call
    \* has reached (pc), its locals, what it did so far (trace) and what it
    \* returned (ret)
    op, string, search_string, replace_value, pc, position, match_positions,
    next_match, end_of_last_match, result, trace, ret,
    \* a call of get_substitution on its own
    gs_pc, gs_matched, gs_str, gs_position, gs_captures, gs_named_captures,
    gs_replacement, gs_result,
    \* a call of String.prototype.split: this_str, the separator and limit
    \* arguments, and the list it returned
    sp_pc, sp_this_str, sp_separator, sp_limit, sp_result,
    \* a call of toLowerCase, toUpperCase or normalize (tx_op): the string,
    \* the form argument of normalize, and what the call returned
    tx_pc, tx_op, tx_string, tx_form, tx_result,
    \* a call of indexOf, repeat or at (cl_op): the string, the search
    \* string of indexOf, the number argument after ToIntegerOrInfinity,
    \* whether the build checks arithmetic overflow, and what the call
    \* returned
    cl_pc, cl_op, cl_string, cl_search_str, cl_number, cl_overflow_checks,
    cl_result

replVars == <<op, string, search_string, replace_value, pc, position,
              match_positions, next_match, end_of_last_match, result, trace, ret>>

gsVars == <<gs_pc, gs_matched, gs_str, gs_position, gs_captures,
            gs_named_captures, gs_replacement, gs_result>>

splitVars == <<sp_pc, sp_this_str, sp_separator, sp_limit, sp_result>>

textVars == <<tx_pc, tx_op, tx_string, tx_form, tx_result>>

callVars == <<cl_pc, cl_op, cl_string, cl_search_str, cl_number,
              cl_overflow_checks, cl_result>>

vars == <<replVars, gsVars, splitVars, textVars, callVars>>

\* no call of replace / replaceAll is in progress
ReplIdle ==
    /\ op = "none"
    /\ string = <<>>
    /\ search_string = <<>>
    /\ replace_value = [callable |-> FALSE, str |-> <<>>, throws |-> FALSE]
    /\ pc = "idle"
    /\ position = NONE
    /\ match_positions = <<>>
    /\ next_match = 1
    /\ end_of_last_match = 0
    /\ result = <<>>
    /\ trace = <<>>
    /\ ret = Ok(<<>>)

\* no call of get_substitution on its own is in progress
GsIdle ==
    /\ gs_pc = "idle"
    /\ gs_matched = <<>>
    /\ gs_str = <<>>
    /\ gs_position = 0
    /\ gs_captures = <<>>
    /\ gs_named_captures = NoNamedCaptures
    /\ gs_replacement = <<>>
    /\ gs_result = Ok(<<>>)

\* the separator and limit arguments of split: undefined, or a string / a
\* number
AbsentArgument == [def |-> FALSE, s |-> <<>>, n |-> 0]

SeparatorString(s) == [def |-> TRUE, s |-> s, n |-> 0]

LimitNumber(n) == [def |-> TRUE, s |-> <<>>, n |-> n]

\* no call of split is in progress
SplitIdle ==
    /\ sp_pc = "idle"
    /\ sp_this_str = <<>>
    /\ sp_separator = AbsentArgument
    /\ sp_limit = AbsentArgument
    /\ sp_result = <<>>

\* no call of toLowerCase, toUpperCase or normalize is in progress
TextIdle ==
    /\ tx_pc = "idle"
    /\ tx_op = "none"
    /\ tx_string = <<>>
    /\ tx_form = AbsentArgument
    /\ tx_result = Ok(<<>>)

\* IntegerOrInfinity: Integer(n), PositiveInfinity, NegativeInfinity
Integer(n) == [kind |-> "int", n |-> n]
PositiveInfinity == [kind |-> "inf", n |-> 0]
NegativeInfinity == [kind |-> "neginf", n |-> 0]

\* what a call of indexOf, repeat or at ends in: a number, a string,
\* undefined, a RangeError, or a panic of the engine
NumberResult(n) == [kind |-> "number", n |-> n, s |-> <<>>]
StringResult(s) == [kind |-> "string", n |-> 0, s |-> s]
UndefinedResult == [kind |-> "undefined", n |-> 0, s |-> <<>>]
RangeErrorResult == [kind |-> "RangeError", n |-> 0, s |-> <<>>]
PanicResult == [kind |-> "panic", n |-> 0, s |-> <<>>]

\* no call of indexOf, repeat or at is in progress
CallIdle ==
    /\ cl_pc = "idle"
    /\ cl_op = "none"
    /\ cl_string = <<>>
    /\ cl_search_str = <<>>
    /\ cl_number = Integer(0)
    /\ cl_overflow_checks = FALSE
    /\ cl_result = UndefinedResult

(***************************************************************************)
(* GetSubstitution called on its own, as RegExp.prototype[@@replace] and   *)
(* the string methods call it.                                             *)
(***************************************************************************)
\* the code units a replacement template is drawn from
TemplateUnits ==
    {Dollar, Ampersand, Backtick, Apostrophe, LessThan, GreaterThan,
     48, 49,          \* the digits 0 and 1
     97,              \* a
     55357, 56832}    \* the surrogate pair of U+1F600

\* the capture list of m captures, the absent-th of them undefined
\* (absent = 0: none); capture k is the one-unit string 'A' + k
CaptureList(m, absent) ==
    [k \in 1..m |-> IF k = absent THEN UndefinedValue ELSE StringValue(<<64 + k>>)]

CaptureLists ==
    {CaptureList(m, 0) : m \in {0, 1, MaxCaps}}
        \cup {CaptureList(MaxCaps, 1), <<StringValue(<<67, 49>>)>>}   \* ["C1"]
        \cup {<<StringValue(<<Dollar, Ampersand>>)>>}                 \* ["$&"]

\* the templates "[$&]" and "$1-$`", and "$<a>$&", "$<a$&", "$<a>&" and
\* "$<1>a"
SampleTemplates ==
    {<<91, Dollar, Ampersand, 93>>, <<Dollar, 49, 45, Dollar, Backtick>>,
     <<Dollar, LessThan, 97, GreaterThan, Dollar, Ampersand>>,
     <<Dollar, LessThan, 97, Dollar, Ampersand>>,
     <<Dollar, LessThan, 97, GreaterThan, Ampersand>>,
     <<Dollar, LessThan, 49, GreaterThan, 97>>}

\* (matched, str, position) with position <= len(str), the assertion of step 5
MatchContexts ==
    { <<<<97, 98>>, <<120, 120, 97, 98, 121, 121>>, 2>>,   \* "ab" in "xxabyy"
      <<<<>>, <<>>, 0>>,
      <<<<98>>, <<97, 98>>, 1>>,                           \* "b" ends "ab"
      <<<<97, 98>>, <<97>>, 1>>,                           \* runs past the end
      \* "$" between "$&" and "$1": text that reads as escapes
      <<<<Dollar>>, <<Dollar, Ampersand, Dollar, Dollar, 49>>, 2>> }

\* the groups: "a" is "x$", "" is undefined, and reading "1" throws
SampleNamedCaptures ==
    NamedCapturesObject([n \in {<<97>>, <<>>, <<49>>} |->
        IF n = <<>> THEN UndefinedValue
        ELSE IF n = <<49>> THEN ThrowingValue
        ELSE StringValue(<<120, Dollar>>)])

GsInit ==
    /\ ReplIdle
    /\ SplitIdle
    /\ TextIdle
    /\ CallIdle
    /\ gs_pc = "call"
    /\ gs_replacement \in SeqsUpTo(TemplateUnits, MaxTemplLen) \cup SampleTemplates
    /\ \E c \in MatchContexts :
          /\ gs_matched = c[1]
          /\ gs_str = c[2]
          /\ gs_position = c[3]
    /\ gs_captures \in CaptureLists
    /\ gs_named_captures \in {NoNamedCaptures, SampleNamedCaptures}
    /\ gs_result = Ok(<<>>)

GetSubstitutionCall ==
    /\ gs_pc = "call"
    /\ gs_pc' = "done"
    /\ gs_result' = GetSubstitution(gs_matched, gs_str, gs_position, gs_captures,
                                    gs_named_captures, gs_replacement)
    /\ UNCHANGED <<gs_matched, gs_str, gs_position, gs_captures,
                   gs_named_captures, gs_replacement>>
    /\ UNCHANGED <<replVars, splitVars, textVars, callVars>>

GsNext == GetSubstitutionCall

SpecSubst == GsInit /\ [][GsNext]_vars

(***************************************************************************)
(* String.prototype.replace and String.prototype.replaceAll with a string  *)
(* search value (searchValue has no @@replace method), from step 3 on.     *)
(***************************************************************************)
\* the code units of sources and search strings
SourceUnits == {97, 98}          \* a, b
\* the textual replacement templates tried: "", "x", "$&", "$`", "$'",
\* "$$", "$1" and "x$"
ReplacementTemplates ==
    {<<>>, <<120>>, <<Dollar, Ampersand>>, <<Dollar, Backtick>>,
     <<Dollar, Apostrophe>>, <<Dollar, Dollar>>, <<Dollar, 49>>,
     <<120, Dollar>>}

\* replaceValue: a callable, or a value whose ToString gives str or throws
CallableValue == [callable |-> TRUE, str |-> <<>>, throws |-> FALSE]
TextValue(s) == [callable |-> FALSE, str |-> s, throws |-> FALSE]
UnstringableValue == [callable |-> FALSE, str |-> <<>>, throws |-> TRUE]

ReplaceValues ==
    {CallableValue, UnstringableValue}
        \cup {TextValue(s) : s \in ReplacementTemplates}

\* what one invocation of the replacement callback can do: throw, return a
\* value whose ToString throws, or return a value whose ToString is s
CallbackOutcomes ==
    {[kind |-> "throw", s |-> <<>>], [kind |-> "unstringable", s |-> <<>>],
     [kind |-> "string", s |-> <<>>], [kind |-> "string", s |-> <<120>>]}

\* the failure an invocation with that outcome ends in
CallbackError(outcome) ==
    IF outcome.kind = "throw" THEN "callback threw" ELSE "ToString threw"

\* a slip: a failing callback counts as the empty replacement
CallbackReplacementSwallowed(outcome) == Ok(outcome.s)

\* ToString(? Call(replaceValue, undefined, args))?: the replacement, or the
\* failure of the call or of the conversion
CallbackReplacement(outcome) ==
    IF outcome.kind = "string" THEN Ok(outcome.s) ELSE Err(CallbackError(outcome))

\* entries of the trace
ToStringEvent == [ev |-> "tostring", from |-> 0, args |-> <<>>, outcome |-> <<>>]
IndexOfEvent(from) == [ev |-> "indexof", from |-> from, args |-> <<>>, outcome |-> <<>>]
CallEvent(args, outcome) == [ev |-> "call", from |-> 0, args |-> args, outcome |-> <<outcome>>]

\* a slip: the string and the search string change places
CallbackArgsSwapped(p) == <<string, p, search_string>>

\* the arguments of the replacement callback for the match at p
CallbackArgs(p) == <<search_string, p, string>>

Init ==
    /\ GsIdle
    /\ SplitIdle
    /\ TextIdle
    /\ CallIdle
    /\ op \in {"replace", "replace_all"}
    /\ string \in SeqsUpTo(SourceUnits, MaxLen)
    /\ search_string \in SeqsUpTo(SourceUnits, MaxSearchLen)
    /\ replace_value \in ReplaceValues
    /\ pc = "start"
    /\ position = NONE
    /\ match_positions = <<>>
    /\ next_match = 1
    /\ end_of_last_match = 0
    /\ result = <<>>
    /\ trace = <<>>
    /\ ret = Ok(<<>>)

\* the call returns
Return(value) ==
    /\ pc' = "done"
    /\ ret' = value

\* replace, steps 7 to 9: search the first occurrence; return the string when
\* there is none
ReplaceSearch ==
    /\ UNCHANGED <<gsVars, splitVars, textVars, callVars>>
    /\ op = "replace"
    /\ pc = "start"
    /\ position' = StringIndexOf(string, search_string, 0)
    /\ trace' = Append(trace, IndexOfEvent(0))
    /\ IF position' = NONE
       THEN Return(Ok(string))
       ELSE pc' = "replace" /\ ret' = ret
    /\ UNCHANGED <<op, string, search_string, replace_value, match_positions,
                   next_match, end_of_last_match, result>>

\* a slip: the rest of the string starts at the match, not after it
ReplaceResultKeepsMatch(replacement) ==
    Slice(string, 0, position) \o replacement \o SliceFrom(string, position)

\* replace, step 13: preserved, replacement and the rest of the string
ReplaceResult(replacement) ==
    Slice(string, 0, position) \o replacement
        \o SliceFrom(string, position + Len(search_string))

\* replace, steps 10 to 13 with a callable replaceValue
ReplaceFunctional ==
    /\ UNCHANGED <<gsVars, splitVars, textVars, callVars>>
    /\ op = "replace"
    /\ pc = "replace"
    /\ replace_value.callable
    /\ \E outcome \in CallbackOutcomes :
          /\ trace' = Append(trace, CallEvent(CallbackArgs(position), outcome))
          /\ IF CallbackReplacement(outcome).ok
             THEN /\ result' = ReplaceResult(CallbackReplacement(outcome).val)
                  /\ Return(Ok(result'))
             ELSE /\ result' = result
                  /\ Return(CallbackReplacement(outcome))
    /\ UNCHANGED <<op, string, search_string, replace_value, position,
                   match_positions, next_match, end_of_last_match>>

\* replace, steps 10 to 13 with any other replaceValue
ReplaceTextual ==
    /\ UNCHANGED <<gsVars, splitVars, textVars, callVars>>
    /\ op = "replace"
    /\ pc = "replace"
    /\ ~replace_value.callable
    /\ trace' = Append(trace, ToStringEvent)
    /\ IF replace_value.throws
       THEN /\ result' = result
            /\ Return(Err("ToString threw"))
       ELSE LET replacement == GetSubstitution(search_string, string, position,
                                   <<>>, NoNamedCaptures, replace_value.str)
            IN IF replacement.ok
               THEN /\ result' = ReplaceResult(replacement.val)
                    /\ Return(Ok(result'))
               ELSE /\ result' = result
                    /\ Return(replacement)
    /\ UNCHANGED <<op, string, search_string, replace_value, position,
                   match_positions, next_match, end_of_last_match>>

\* a slip: the advance is the search length, also when that is 0
AdvanceByLength(search_length) == search_length

\* a slip: the advance is always 1, so matches may overlap
AdvanceByOne(search_length) == 1

\* replaceAll, step 8
AdvanceBy(search_length) == IF search_length > 1 THEN search_length ELSE 1

\* replaceAll, steps 5 to 10: ToString of a replaceValue that is not
\* callable, then the first search
ReplaceAllStart ==
    /\ UNCHANGED <<gsVars, splitVars, textVars, callVars>>
    /\ op = "replace_all"
    /\ pc = "start"
    /\ IF ~replace_value.callable /\ replace_value.throws
       THEN /\ trace' = Append(trace, ToStringEvent)
            /\ position' = position
            /\ Return(Err("ToString threw"))
       ELSE /\ trace' = (IF replace_value.callable THEN trace
                         ELSE Append(trace, ToStringEvent))
                            \o <<IndexOfEvent(0)>>
            /\ position' = StringIndexOf(string, search_string, 0)
            /\ pc' = "search"
            /\ ret' = ret
    /\ UNCHANGED <<op, string, search_string, replace_value, match_positions,
                   next_match, end_of_last_match, result>>

\* replaceAll, step 11: one turn of the loop that collects matchPositions
ReplaceAllSearch ==
    /\ UNCHANGED <<gsVars, splitVars, textVars, callVars>>
    /\ op = "replace_all"
    /\ pc = "search"
    /\ position # NONE
    /\ Len(match_positions) < MaxMatches
    /\ match_positions' = Append(match_positions, position)
    /\ position' = StringIndexOf(string, search_string,
                                 position + AdvanceBy(Len(search_string)))
    /\ trace' = Append(trace,
                  IndexOfEvent(position + AdvanceBy(Len(search_string))))
    /\ UNCHANGED <<op, string, search_string, replace_value, pc, next_match,
                   end_of_last_match, result, ret>>

\* replaceAll, steps 12 and 13: the loop of step 11 ends
ReplaceAllSearchEnd ==
    /\ UNCHANGED <<gsVars, splitVars, textVars, callVars>>
    /\ op = "replace_all"
    /\ pc = "search"
    /\ position = NONE
    /\ pc' = "apply"
    /\ end_of_last_match' = 0
    /\ result' = <<>>
    /\ next_match' = 1
    /\ UNCHANGED <<op, string, search_string, replace_value, position,
                   match_positions, trace, ret>>

\* a slip: endOfLastMatch advances by advanceBy instead of searchLength
ReplaceAllAppendAdvance(p, replacement) ==
    /\ result' = result \o Slice(string, end_of_last_match, p) \o replacement
    /\ end_of_last_match' = p + AdvanceBy(Len(search_string))
    /\ next_match' = next_match + 1
    /\ UNCHANGED <<pc, ret>>

\* replaceAll, steps 14.a, 14.d and 14.e for the match at p
ReplaceAllAppend(p, replacement) ==
    /\ result' = result \o Slice(string, end_of_last_match, p) \o replacement
    /\ end_of_last_match' = p + Len(search_string)
    /\ next_match' = next_match + 1
    /\ UNCHANGED <<pc, ret>>

\* replaceAll, step 14 for one match, replaceValue a string
ReplaceAllTextual ==
    /\ UNCHANGED <<gsVars, splitVars, textVars, callVars>>
    /\ op = "replace_all"
    /\ pc = "apply"
    /\ next_match <= Len(match_positions)
    /\ ~replace_value.callable
    /\ LET p == match_positions[next_match]
           replacement == GetSubstitution(search_string, string, p, <<>>,
                                          NoNamedCaptures, replace_value.str)
       IN IF end_of_last_match > p \/ ~replacement.ok
          THEN /\ Return(Err("panic"))
               /\ UNCHANGED <<result, end_of_last_match, next_match>>
          ELSE ReplaceAllAppend(p, replacement.val)
    /\ UNCHANGED <<op, string, search_string, replace_value, position,
                   match_positions, trace>>

\* replaceAll, step 14 for one match, replaceValue callable
ReplaceAllFunctional ==
    /\ UNCHANGED <<gsVars, splitVars, textVars, callVars>>
    /\ op = "replace_all"
    /\ pc = "apply"
    /\ next_match <= Len(match_positions)
    /\ replace_value.callable
    /\ LET p == match_positions[next_match]
       IN IF end_of_last_match > p
          THEN /\ Return(Err("panic"))
               /\ UNCHANGED <<result, end_of_last_match, next_match, trace>>
          ELSE \E outcome \in CallbackOutcomes :
                  /\ trace' = Append(trace, CallEvent(CallbackArgs(p), outcome))
                  /\ IF CallbackReplacement(outcome).ok
                     THEN ReplaceAllAppend(p, CallbackReplacement(outcome).val)
                     ELSE /\ Return(CallbackReplacement(outcome))
                          /\ UNCHANGED <<result, end_of_last_match, next_match>>
    /\ UNCHANGED <<op, string, search_string, replace_value, position,
                   match_positions>>

\* a slip: the rest of the string after the last match is dropped
FinalResultNoTail == result

\* replaceAll, step 15: the rest of the string after the last match
FinalResult ==
    IF end_of_last_match < Len(string)
    THEN result \o SliceFrom(string, end_of_last_match)
    ELSE result

\* replaceAll, steps 15 and 16
ReplaceAllFinish ==
    /\ UNCHANGED <<gsVars, splitVars, textVars, callVars>>
    /\ op = "replace_all"
    /\ pc = "apply"
    /\ next_match > Len(match_positions)
    /\ result' = FinalResult
    /\ Return(Ok(result'))
    /\ UNCHANGED <<op, string, search_string, replace_value, position,
                   match_positions, next_match, end_of_last_match, trace>>

Next ==
    \/ ReplaceSearch
    \/ ReplaceFunctional
    \/ ReplaceTextual
    \/ ReplaceAllStart
    \/ ReplaceAllSearch
    \/ ReplaceAllSearchEnd
    \/ ReplaceAllTextual
    \/ ReplaceAllFunctional
    \/ ReplaceAllFinish

Spec == Init /\ [][Next]_vars

\* calls of replaceAll alone
ReplaceAllInit == Init /\ op = "replace_all"

ReplaceAllNext ==
    \/ ReplaceAllStart
    \/ ReplaceAllSearch
    \/ ReplaceAllSearchEnd
    \/ ReplaceAllTextual
    \/ ReplaceAllFunctional
    \/ ReplaceAllFinish

\* a call of replaceAll, every step of which is taken: the code is
\* sequential, and the replacement callback is taken to return
FairSpec ==
    ReplaceAllInit /\ [][ReplaceAllNext]_vars /\ WF_vars(ReplaceAllNext)

(***************************************************************************)
(* String.prototype.split, for a separator that is undefined or a string.  *)
(***************************************************************************)
\* the largest limit a call is given
MaxLimit == 4

\* lim: 2^32 - 1 when limit is undefined, else ToUint32(limit).  2^32 - 1 is
\* beyond every length here, so it is kept as the mark `max`; the limits
\* given are already in the range of ToUint32.
ToLim(limit) ==
    IF limit.def THEN [max |-> FALSE, n |-> limit.n]
    ELSE [max |-> TRUE, n |-> 0]

\* lim == 0
LimIsZero(lim) == ~lim.max /\ lim.n = 0

\* a slip: the list is cut only once it has grown past lim
LimitReachedLate(count, lim) == ~lim.max /\ count > lim.n

\* substrings.len() == lim
LimitReached(count, lim) == ~lim.max /\ count = lim.n

\* a slip: no element at all
NoString(S) == <<>>

\* the list whose only element is S
WholeString(S) == <<S>>

\* a slip: the empty source is looked at before the empty separator
HeadUnitsOrWhole(S, lim) ==
    IF S = <<>> THEN <<S>>
    ELSE LET head == IF lim.max \/ lim.n > Len(S) THEN S
                     ELSE SubSeq(S, 1, lim.n)
         IN [k \in 1 .. Len(head) |-> <<head[k]>>]

\* the empty separator: this_str.get(..lim), or all of this_str when lim is
\* past its end, one string per code unit
HeadUnits(S, lim) ==
    LET head == IF lim.max \/ lim.n > Len(S) THEN S ELSE SubSeq(S, 1, lim.n)
    IN [k \in 1 .. Len(head) |-> <<head[k]>>]

\* a slip: the next search starts one unit after the match
NextStartByOne(index, separator_length) == index + 1

\* i = index + separator_length
NextStart(index, separator_length) == index + separator_length

\* a slip: the text after the last match is left out
RECURSIVE SplitLoopNoTail(_, _, _, _, _, _)
SplitLoopNoTail(S, R, lim, i, j, substrings) ==
    IF j = NONE THEN substrings
    ELSE LET pushed == Append(substrings, Slice(S, i, j))
             next_i == NextStart(j, Len(R))
         IN IF LimitReached(Len(pushed), lim) THEN pushed
            ELSE SplitLoopNoTail(S, R, lim, next_i,
                                 StringIndexOf(S, R, next_i), pushed)

\* the loop over the matches: i is the end of the last match, j the next
\* match or NONE
RECURSIVE SplitLoop(_, _, _, _, _, _)
SplitLoop(S, R, lim, i, j, substrings) ==
    IF j = NONE THEN Append(substrings, SliceFrom(S, i))
    ELSE LET pushed == Append(substrings, Slice(S, i, j))
             next_i == NextStart(j, Len(R))
         IN IF LimitReached(Len(pushed), lim) THEN pushed
            ELSE SplitLoop(S, R, lim, next_i, StringIndexOf(S, R, next_i),
                           pushed)

\* split(separator, limit) on this_str S, from step 6 on
Split(S, separator, limit) ==
    LET lim == ToLim(limit)
        R == separator.s
    IN IF LimIsZero(lim) THEN <<>>
       ELSE IF ~separator.def THEN WholeString(S)
       ELSE IF Len(R) = 0 THEN HeadUnits(S, lim)
       ELSE IF S = <<>> THEN WholeString(S)
       ELSE SplitLoop(S, R, lim, 0, StringIndexOf(S, R, 0), <<>>)

\* the code units of the sources: `a`, `,` and the two halves of U+1F600
SplitUnits == {97, 44, 55357, 56832}

\* the sources, "a,,b" among them
SplitSources == SeqsUpTo(SplitUnits, MaxLen) \cup {<<97, 44, 44, 98>>}

SplitSeparators ==
    {AbsentArgument} \cup {SeparatorString(s) : s \in SeqsUpTo({44, 97}, MaxSearchLen)}

SplitLimits == {AbsentArgument} \cup {LimitNumber(n) : n \in 0 .. MaxLimit}

SplitInit ==
    /\ ReplIdle
    /\ GsIdle
    /\ TextIdle
    /\ CallIdle
    /\ sp_pc = "call"
    /\ sp_this_str \in SplitSources
    /\ sp_separator \in SplitSeparators
    /\ sp_limit \in SplitLimits
    /\ sp_result = <<>>

SplitCall ==
    /\ sp_pc = "call"
    /\ sp_pc' = "done"
    /\ sp_result' = Split(sp_this_str, sp_separator, sp_limit)
    /\ UNCHANGED <<sp_this_str, sp_separator, sp_limit>>
    /\ UNCHANGED <<replVars, gsVars, textVars, callVars>>

SplitNext == SplitCall

SpecSplit == SplitInit /\ [][SplitNext]_vars

(***************************************************************************)
(* toLowerCase, toUpperCase and normalize: the string is read as code      *)
(* points, each run of scalar values between unpaired surrogates is        *)
(* converted, and the surrogates are put back between the converted runs.  *)
(* The conversions themselves are the library's (str::to_lowercase,        *)
(* str::to_uppercase, unicode_normalization); here they are written out    *)
(* for the scalar values that occur: A 65, F 70, I 73, a 97, f 102, i 105, *)
(* A-acute 193, a-acute 225, i-acute 237, the combining acute 769,         *)
(* capital sigma 931, final sigma 962, sigma 963, the ligature fi 64257,   *)
(* U+10000 65536, and the Deseret long I, capital 66560 and small 66600.   *)
(***************************************************************************)
\* the concatenation of a sequence of sequences
RECURSIVE Flatten(_)
Flatten(pieces) ==
    IF pieces = <<>> THEN <<>> ELSE Head(pieces) \o Flatten(Tail(pieces))

\* the properties Cased and Case_Ignorable
IsCased(c) ==
    c \in {65, 70, 73, 97, 102, 105, 193, 225, 237, 931, 962, 963, 64257,
           66560, 66600}

IsCaseIgnorable(c) == c = 769

\* whether the first scalar value that is not case-ignorable, among
\* chars[k], chars[k + step], ..., is cased
RECURSIVE CaseIgnorableThenCased(_, _, _)
CaseIgnorableThenCased(chars, k, step) ==
    IF k < 1 \/ k > Len(chars) THEN FALSE
    ELSE IF IsCaseIgnorable(chars[k])
         THEN CaseIgnorableThenCased(chars, k + step, step)
         ELSE IsCased(chars[k])

\* the lower case of one scalar value other than capital sigma
LowerOf(c) ==
    IF c = 65 THEN <<97>>
    ELSE IF c = 66560 THEN <<66600>>
    ELSE <<c>>

\* str::to_lowercase: capital sigma becomes the final sigma at the end of a
\* word, after a cased letter and not before one
ToLowercase(chars) ==
    Flatten([k \in 1 .. Len(chars) |->
        IF chars[k] = 931
        THEN IF /\ CaseIgnorableThenCased(chars, k - 1, -1)
                /\ ~CaseIgnorableThenCased(chars, k + 1, 1)
             THEN <<962>> ELSE <<963>>
        ELSE LowerOf(chars[k])])

\* the upper case of one scalar value
UpperOf(c) ==
    IF c = 225 THEN <<193>>
    ELSE IF c = 64257 THEN <<70, 73>>
    ELSE <<c>>

\* str::to_uppercase
ToUppercase(chars) == Flatten([k \in 1 .. Len(chars) |-> UpperOf(chars[k])])

\* the canonical decomposition of one scalar value
CanonicalDecomposition(c) ==
    IF c = 193 THEN <<65, 769>>
    ELSE IF c = 225 THEN <<97, 769>>
    ELSE IF c = 237 THEN <<105, 769>>
    ELSE <<c>>

\* its compatibility decomposition
CompatibilityDecomposition(c) ==
    IF c = 64257 THEN <<102, 105>> ELSE CanonicalDecomposition(c)

\* the primary composite of c with the combining acute, or 0
Composite(c) ==
    IF c = 65 THEN 193 ELSE IF c = 97 THEN 225 ELSE IF c = 105 THEN 237 ELSE 0

\* canonical composition of a decomposed text: a starter takes the acute
\* that follows it when the pair has a composite
RECURSIVE Compose(_)
Compose(chars) ==
    IF chars = <<>> THEN <<>>
    ELSE IF Len(chars) >= 2 /\ chars[2] = 769 /\ Composite(chars[1]) # 0
         THEN <<Composite(chars[1])>> \o Compose(SubSeq(chars, 3, Len(chars)))
         ELSE <<chars[1]>> \o Compose(Tail(chars))

\* nfd(), nfc(), nfkd() and nfkc() on a run
Nfd(chars) == Flatten([k \in 1 .. Len(chars) |-> CanonicalDecomposition(chars[k])])

Nfc(chars) == Compose(Nfd(chars))

Nfkd(chars) ==
    Flatten([k \in 1 .. Len(chars) |-> CompatibilityDecomposition(chars[k])])

Nfkc(chars) == Compose(Nfkd(chars))

\* the conversion a call applies to a run
Transform(kind, chars) ==
    CASE kind = "lower" -> ToLowercase(chars)
      [] kind = "upper" -> ToUppercase(chars)
      [] kind = "NFC" -> Nfc(chars)
      [] kind = "NFD" -> Nfd(chars)
      [] kind = "NFKC" -> Nfkc(chars)
      [] kind = "NFKD" -> Nfkd(chars)

\* where map_while stops when it starts at token i: the index of the next
\* unpaired surrogate, or one past the last token
RunStop(code_points, i) ==
    LET stops == {j \in i .. Len(code_points) : ~code_points[j].uni}
    IN IF stops = {} THEN Len(code_points) + 1
       ELSE CHOOSE j \in stops : \A k \in stops : j <= k

\* only_chars: the scalar values map_while yields from token i on
OnlyChars(code_points, i) ==
    [k \in 1 .. (RunStop(code_points, i) - i) |-> code_points[i + k - 1].cp]

\* encode_utf16 of a text of scalar values
EncodeChars(chars) ==
    Flatten([k \in 1 .. Len(chars) |-> EncodeUtf16(Unicode(chars[k]))])

\* a slip: the surrogate is replaced by U+FFFD
PushReplacement(text, surr) == Append(text, 65533)

\* a slip: the surrogate is not put back
DropSurrogate(text, surr) == text

\* lower_text.push(surr)
PushSurrogate(text, surr) == Append(text, surr)

\* a slip: the surrogate is pushed before the run that precedes it
RECURSIVE RunLoopSurrogateFirst(_, _, _, _)
RunLoopSurrogateFirst(kind, code_points, i, text) ==
    LET stop == RunStop(code_points, i)
        run == EncodeChars(Transform(kind, OnlyChars(code_points, i)))
    IN IF stop <= Len(code_points)
       THEN RunLoopSurrogateFirst(kind, code_points, stop + 1,
                PushSurrogate(text, code_points[stop].cp) \o run)
       ELSE text \o run

\* the loop: convert the run that starts at token i and append it, then
\* push the surrogate that ended it and go on after it, or stop at the end
RECURSIVE RunLoop(_, _, _, _)
RunLoop(kind, code_points, i, text) ==
    LET stop == RunStop(code_points, i)
        extended == text \o EncodeChars(Transform(kind, OnlyChars(code_points, i)))
    IN IF stop <= Len(code_points)
       THEN RunLoop(kind, code_points, stop + 1,
                    PushSurrogate(extended, code_points[stop].cp))
       ELSE extended

\* a slip: the names are also taken in lower case
FormNamesLenient ==
    {<<78, 70, 67>>, <<78, 70, 68>>, <<78, 70, 75, 67>>, <<78, 70, 75, 68>>,
     <<110, 102, 99>>}

\* the form names: "NFC", "NFD", "NFKC", "NFKD"
FormNames ==
    {<<78, 70, 67>>, <<78, 70, 68>>, <<78, 70, 75, 67>>, <<78, 70, 75, 68>>}

\* Normalization::Nfc and so on, by the name f
FormKind(f) ==
    IF f = <<78, 70, 67>> THEN "NFC"
    ELSE IF f = <<78, 70, 68>> THEN "NFD"
    ELSE IF f = <<78, 70, 75, 67>> THEN "NFKC"
    ELSE "NFKD"

\* normalize(form) on s
Normalize(s, form) ==
    LET f == IF ~form.def THEN <<78, 70, 67>> ELSE form.s
    IN IF f \notin FormNames THEN Err("RangeError")
       ELSE Ok(RunLoop(FormKind(f), ToCodePoints(s), 1, <<>>))

\* the form argument given as a string
FormString(s) == [def |-> TRUE, s |-> s, n |-> 0]

\* the code units of the strings: A, a-acute, capital sigma, the combining
\* acute, the ligature fi, the high surrogates D800 and D801 and the low
\* surrogate DC00
TextUnits == {65, 225, 931, 769, 64257, 55296, 55297, 56320}

\* the form arguments: undefined, the four names, and "nfc", "" and "NFCD"
FormArguments ==
    {AbsentArgument}
        \cup {FormString(f) : f \in FormNames \cup
                  {<<110, 102, 99>>, <<>>, <<78, 70, 67, 68>>}}

TextInit ==
    /\ ReplIdle
    /\ GsIdle
    /\ SplitIdle
    /\ CallIdle
    /\ tx_pc = "call"
    /\ tx_op \in {"to_lowercase", "to_uppercase", "normalize"}
    /\ tx_string \in SeqsUpTo(TextUnits, MaxLen)
    /\ tx_form \in (IF tx_op = "normalize" THEN FormArguments ELSE {AbsentArgument})
    /\ tx_result = Ok(<<>>)

ToLowercaseCall ==
    /\ tx_pc = "call"
    /\ tx_op = "to_lowercase"
    /\ tx_pc' = "done"
    /\ tx_result' = Ok(RunLoop("lower", ToCodePoints(tx_string), 1, <<>>))
    /\ UNCHANGED <<tx_op, tx_string, tx_form>>
    /\ UNCHANGED <<replVars, gsVars, splitVars, callVars>>

ToUppercaseCall ==
    /\ tx_pc = "call"
    /\ tx_op = "to_uppercase"
    /\ tx_pc' = "done"
    /\ tx_result' = Ok(RunLoop("upper", ToCodePoints(tx_string), 1, <<>>))
    /\ UNCHANGED <<tx_op, tx_string, tx_form>>
    /\ UNCHANGED <<replVars, gsVars, splitVars, callVars>>

NormalizeCall ==
    /\ tx_pc = "call"
    /\ tx_op = "normalize"
    /\ tx_pc' = "done"
    /\ tx_result' = Normalize(tx_string, tx_form)
    /\ UNCHANGED <<tx_op, tx_string, tx_form>>
    /\ UNCHANGED <<replVars, gsVars, splitVars, callVars>>

TextNext ==
    \/ ToLowercaseCall
    \/ ToUppercaseCall
    \/ NormalizeCall

SpecText == TextInit /\ [][TextNext]_vars

(***************************************************************************)
(* String.prototype.indexOf, repeat and at.  The source computes with      *)
(* 64-bit words (i64, usize) and a maximum string length of 2^32 - 1; the  *)
(* widths are scaled down here, a word having WordBits bits and the        *)
(* maximum string length half as many, so that every value of a word       *)
(* occurs.                                                                 *)
(***************************************************************************)
\* the number of bits of i64 and of usize
WordBits == 6

\* 2^64, usize::MAX + 1
UsizeModulus == 2 ^ WordBits

\* i64::MIN and i64::MAX
I64Min == -(2 ^ (WordBits - 1))

I64Max == 2 ^ (WordBits - 1) - 1

\* u32::MAX as usize
MAX_STRING_LENGTH == 2 ^ (WordBits \div 2) - 1

\* a slip: the position is always taken as 0
ClampFiniteToZero(pos, min, max) == min

\* a slip: a position past the end is kept
ClampFiniteNoUpper(pos, min, max) ==
    IF pos.kind = "neginf" THEN min
    ELSE IF pos.kind = "inf" THEN max
    ELSE IF pos.n < min THEN min ELSE pos.n

\* pos.clamp_finite(min, max)
ClampFinite(pos, min, max) ==
    IF pos.kind = "neginf" THEN min
    ELSE IF pos.kind = "inf" THEN max
    ELSE IF pos.n < min THEN min
    ELSE IF pos.n > max THEN max
    ELSE pos.n

\* indexOf(searchString, position) on the string s
IndexOf(s, search_str, pos) ==
    LET len == Len(s)
        start == ClampFinite(pos, 0, len)
        found == StringIndexOf(s, search_str, start)
    IN NumberResult(IF found = NONE THEN -1 ELSE found)

\* n copies of s
RECURSIVE Copies(_, _)
Copies(s, n) == IF n = 0 THEN <<>> ELSE s \o Copies(s, n - 1)

\* a * b on usize overflows
MulOverflows(a, b) == a * b >= UsizeModulus

\* a * b on usize when overflow is not checked
WrappingMul(a, b) == (a * b) % UsizeModulus

\* repeat(count) on the string s.  The product (n as usize) * len panics on
\* overflow in a build that checks it and wraps in one that does not; when
\* it has wrapped, the n copies are more than the address space holds and
\* extending the vector panics.
Repeat(s, count, overflow_checks) ==
    LET len == Len(s)
        n == count.n
    IN IF count.kind = "int" /\ n > 0
       THEN IF MulOverflows(n, len) /\ overflow_checks THEN PanicResult
            ELSE IF WrappingMul(n, len) <= MAX_STRING_LENGTH
                 THEN IF s = <<>> THEN StringResult(<<>>)
                      ELSE IF MulOverflows(n, len) THEN PanicResult
                      ELSE StringResult(Copies(s, n))
                 ELSE RangeErrorResult
       ELSE IF count.kind = "int" /\ n = 0 THEN StringResult(<<>>)
       ELSE RangeErrorResult

\* -i on i64 when overflow is not checked
WrappingNeg(i) == IF i = I64Min THEN I64Min ELSE -i

\* v as usize
AsUsize(v) == v % UsizeModulus

\* at(index) on s.  -i panics for i64::MIN in a build that checks overflow
\* and wraps to i64::MIN in one that does not; s[k..=k] panics when k is
\* not an index of s.
At(s, relative_index, overflow_checks) ==
    LET len == Len(s)
        i == relative_index.n
    IN IF relative_index.kind # "int" THEN UndefinedResult
       ELSE IF i >= 0 /\ i < len THEN StringResult(<<s[AsUsize(i) + 1]>>)
       ELSE IF i < 0 /\ i = I64Min /\ overflow_checks THEN PanicResult
       ELSE IF i < 0 /\ WrappingNeg(i) <= len
            THEN LET k == AsUsize(len + i)
                 IN IF k < len THEN StringResult(<<s[k + 1]>>) ELSE PanicResult
       ELSE UndefinedResult

\* the strings: those of `a` and `b`, and "hello"
CallStrings == SeqsUpTo(SourceUnits, MaxLen) \cup {<<104, 101, 108, 108, 111>>}

\* the number argument: every integer of a word, and the two infinities
CallNumbers ==
    {Integer(n) : n \in I64Min .. I64Max} \cup {PositiveInfinity, NegativeInfinity}

CallInit ==
    /\ ReplIdle
    /\ GsIdle
    /\ SplitIdle
    /\ TextIdle
    /\ cl_pc = "call"
    /\ cl_op \in {"index_of", "repeat", "at"}
    /\ cl_string \in CallStrings
    /\ cl_search_str \in (IF cl_op = "index_of"
                          THEN SeqsUpTo(SourceUnits, MaxSearchLen) ELSE {<<>>})
    /\ cl_number \in CallNumbers
    /\ cl_overflow_checks \in (IF cl_op = "index_of" THEN {FALSE} ELSE BOOLEAN)
    /\ cl_result = UndefinedResult

IndexOfCall ==
    /\ cl_pc = "call"
    /\ cl_op = "index_of"
    /\ cl_pc' = "done"
    /\ cl_result' = IndexOf(cl_string, cl_search_str, cl_number)
    /\ UNCHANGED <<cl_op, cl_string, cl_search_str, cl_number, cl_overflow_checks>>
    /\ UNCHANGED <<replVars, gsVars, splitVars, textVars>>

RepeatCall ==
    /\ cl_pc = "call"
    /\ cl_op = "repeat"
    /\ cl_pc' = "done"
    /\ cl_result' = Repeat(cl_string, cl_number, cl_overflow_checks)
    /\ UNCHANGED <<cl_op, cl_string, cl_search_str, cl_number, cl_overflow_checks>>
    /\ UNCHANGED <<replVars, gsVars, splitVars, textVars>>

AtCall ==
    /\ cl_pc = "call"
    /\ cl_op = "at"
    /\ cl_pc' = "done"
    /\ cl_result' = At(cl_string, cl_number, cl_overflow_checks)
    /\ UNCHANGED <<cl_op, cl_string, cl_search_str, cl_number, cl_overflow_checks>>
    /\ UNCHANGED <<replVars, gsVars, splitVars, textVars>>

CallNext ==
    \/ IndexOfCall
    \/ RepeatCall
    \/ AtCall

SpecCalls == CallInit /\ [][CallNext]_vars

(***************************************************************************)
(* Properties of replace and replaceAll.                                   *)
(***************************************************************************)
\* the invocations of the replacement callback so far, in order
CallEvents == SelectSeq(trace, LAMBDA e : e.ev = "call")

\* the searches so far, in order
IndexOfEvents == SelectSeq(trace, LAMBDA e : e.ev = "indexof")

\* the loop that collects matchPositions has ended
SearchFinished ==
    /\ op = "replace_all"
    /\ pc \in {"apply", "done"}
    /\ IndexOfEvents # <<>>

\* max(1, len(search)) as the claims state it
MinAdvance == IF Len(search_string) = 0 THEN 1 ELSE Len(search_string)

\* where the search for the i-th match starts
SearchFloor(i) ==
    IF i = 1 THEN 0 ELSE match_positions[i - 1] + MinAdvance

\* C1: global replace terminates for every source and every search text,
\* the empty one included: the match-discovery loop receives 'no match'
\* after finitely many searches and the call returns, having collected at
\* most len(source) + 1 match positions.
C1_GlobalReplaceTerminates ==
    (op = "replace_all")
        ~> (pc = "done" /\ position = NONE
              /\ Len(match_positions) <= Len(string) + 1)

\* an empty search text in a source of two or more units: the last search
\* starts beyond the end of the source and the call has returned
C1_Witness ==
    /\ op = "replace_all"
    /\ pc = "done"
    /\ ret.ok
    /\ search_string = <<>>
    /\ Len(string) >= 2
    /\ Len(match_positions) = Len(string) + 1
    /\ \E i \in DOMAIN trace :
          trace[i].ev = "indexof" /\ trace[i].from > Len(string)

\* C2: in global replace the list of match positions is strictly
\* increasing, every position is an occurrence of the search text, the
\* first is the leftmost occurrence at or after 0 and each next one the
\* leftmost at or after previous + max(1, len(search)), so the matched
\* ranges do not overlap; once the loop has ended no occurrence at or after
\* the last floor is left out.
C2_MatchPositions ==
    op = "replace_all" =>
        /\ \A i \in 1..Len(match_positions) :
              /\ OccursAt(string, search_string, match_positions[i])
              /\ match_positions[i] >= SearchFloor(i)
              /\ \A q \in SearchFloor(i)..(match_positions[i] - 1) :
                    ~OccursAt(string, search_string, q)
              /\ i > 1 =>
                    /\ match_positions[i] > match_positions[i - 1]
                    /\ match_positions[i] >=
                          match_positions[i - 1] + Len(search_string)
        /\ SearchFinished =>
              \A q \in SearchFloor(Len(match_positions) + 1)..Len(string) :
                  ~OccursAt(string, search_string, q)

\* "aa" in "aaa": the occurrence at 1 overlaps the match at 0 and is not a
\* match position
C2_Witness ==
    /\ SearchFinished
    /\ pc = "done"
    /\ Len(search_string) = 2
    /\ match_positions = <<0>>
    /\ OccursAt(string, search_string, 1)

\* the replacement computed for the i-th match
ReplacementOf(i) ==
    IF replace_value.callable
    THEN CallEvents[i].outcome[1].s
    ELSE GetSubstitution(search_string, string, match_positions[i], <<>>,
                         NoNamedCaptures, replace_value.str).val

RECURSIVE AssembledUpTo(_)
\* source[0..p1] + r1 + source[p1+L..p2] + r2 + ... + ri
AssembledUpTo(i) ==
    IF i = 0 THEN <<>>
    ELSE AssembledUpTo(i - 1)
            \o Slice(string,
                     IF i = 1 THEN 0
                     ELSE match_positions[i - 1] + Len(search_string),
                     match_positions[i])
            \o ReplacementOf(i)

\* C3: global replace returns source[0..p1] + r1 + source[p1+L..p2] + r2 +
\* ... + rk + source[pk+L..end] for its match positions p1 < ... < pk, and
\* the source itself when there is no match.
C3_GlobalReplaceResult ==
    (op = "replace_all" /\ pc = "done" /\ ret.ok) =>
        LET k == Len(match_positions)
        IN ret.val =
              IF k = 0 THEN string
              ELSE AssembledUpTo(k)
                      \o SliceFrom(string,
                                   match_positions[k] + Len(search_string))

\* two matches of a non-empty search text with source text between them
C3_Witness ==
    /\ op = "replace_all"
    /\ pc = "done"
    /\ ret.ok
    /\ Len(search_string) >= 1
    /\ Len(match_positions) >= 2
    /\ match_positions[2] > match_positions[1] + Len(search_string)

RECURSIVE Interleaved(_, _)
\* r s0 r s1 ... r s(n-1) r
Interleaved(r, s) ==
    IF s = <<>> THEN r ELSE r \o <<Head(s)>> \o Interleaved(r, Tail(s))

\* C4: global replace with the empty search text on a source of n units
\* finds the n + 1 matches 0, 1, ..., n, and with a textual replacement r
\* that holds no `$` returns r s0 r s1 ... r s(n-1) r.
C4_EmptySearch ==
    (SearchFinished /\ search_string = <<>>) =>
        /\ match_positions = [i \in 1..(Len(string) + 1) |-> i - 1]
        /\ ( /\ pc = "done"
             /\ ~replace_value.callable
             /\ \A i \in DOMAIN replace_value.str :
                   replace_value.str[i] # Dollar )
           => ret = Ok(Interleaved(replace_value.str, string))

\* the empty search text in "ab" with the replacement "x" gives "xaxbx"
C4_Witness ==
    /\ op = "replace_all"
    /\ pc = "done"
    /\ search_string = <<>>
    /\ string = <<97, 98>>
    /\ replace_value = TextValue(<<120>>)
    /\ ret = Ok(<<120, 97, 120, 98, 120>>)

\* the search text occurs somewhere in the source
SearchOccurs == \E q \in 0..Len(string) : OccursAt(string, search_string, q)

\* the leftmost occurrence of the search text in the source
FirstOccurrence ==
    CHOOSE p \in 0..Len(string) :
        /\ OccursAt(string, search_string, p)
        /\ \A q \in 0..(p - 1) : ~OccursAt(string, search_string, q)

C6_CallbackInvocations ==
    LET calls == CallEvents
    IN /\ ~replace_value.callable => calls = <<>>
       /\ \A i, j \in DOMAIN trace :
             (i < j /\ trace[i].ev = "call") => trace[j].ev = "call"
       /\ op = "replace" =>
             /\ Len(calls) <= 1
             /\ calls # <<>> =>
                   /\ SearchOccurs
                   /\ calls[1].args = <<search_string, FirstOccurrence, string>>
             /\ (pc = "done" /\ replace_value.callable /\ SearchOccurs) =>
                   Len(calls) = 1
       /\ op = "replace_all" =>
             /\ Len(calls) <= Len(match_positions)
             /\ \A i \in DOMAIN calls :
                   calls[i].args = <<search_string, match_positions[i], string>>
             /\ \A i, j \in DOMAIN calls :
                   i < j => calls[i].args[2] < calls[j].args[2]
             /\ calls # <<>> => SearchFinished
             /\ (pc = "done" /\ ret.ok /\ replace_value.callable) =>
                   Len(calls) = Len(match_positions)

\* global replace has invoked the callback for each of three matches
C6_Witness ==
    /\ op = "replace_all"
    /\ pc = "done"
    /\ ret.ok
    /\ Len(match_positions) = 3
    /\ Len(CallEvents) = 3
    /\ Len(search_string) = 1

\* C7: when the replacement callback, or the conversion of its result to a
\* string, fails for a match, the call returns that failure: no result
\* string, and no later invocation of the callback.
C7_CallbackFailure ==
    \A i \in DOMAIN trace :
        (trace[i].ev = "call" /\ trace[i].outcome[1].kind # "string") =>
            /\ i = Len(trace)
            /\ pc = "done"
            /\ ret = Err(CallbackError(trace[i].outcome[1]))

\* the callback fails for the second of three matches of a global replace
C7_Witness ==
    /\ op = "replace_all"
    /\ pc = "done"
    /\ ~ret.ok
    /\ Len(match_positions) = 3
    /\ Len(CallEvents) = 2
    /\ CallEvents[2].outcome[1].kind = "unstringable"

(***************************************************************************)
(* Properties of GetSubstitution.                                          *)
(***************************************************************************)
\* s holds no `$`
NoDollar(s) == \A i \in DOMAIN s : s[i] # Dollar

\* a code unit that is a decimal digit
IsDigitUnit(u) == u >= 48 /\ u <= 57

\* the template is: text without `$`, then `$` at i, then n more units of
\* an escape, then text without `$`
EscapeAt(i, n) ==
    /\ i + n <= Len(gs_replacement)
    /\ gs_replacement[i] = Dollar
    /\ NoDollar(SubSeq(gs_replacement, 1, i - 1))
    /\ NoDollar(SubSeq(gs_replacement, i + n + 1, Len(gs_replacement)))

\* the expected output for that template, the escape replaced by x
Expanded(i, n, x) ==
    Ok(SubSeq(gs_replacement, 1, i - 1) \o x
         \o SubSeq(gs_replacement, i + n + 1, Len(gs_replacement)))

\* what a reference to capture k stands for, given the literal text lit
CaptureOrLiteral(k, lit) ==
    IF k = 0 \/ k > Len(gs_captures) THEN lit
    ELSE IF gs_captures[k].kind = "string" THEN gs_captures[k].s ELSE <<>>

\* C8: `$` followed by two decimal digits d1 d2, nn = 10*d1 + d2: when nn
\* is 0 or greater than the number of captures the output receives the
\* three units `$` d1 d2 and both digits are consumed; when 1 <= nn <= m it
\* receives captures[nn-1], or nothing if that capture is absent.
C8_TwoDigitReference ==
    gs_pc = "done" =>
        \A i \in DOMAIN gs_replacement :
            ( /\ EscapeAt(i, 2)
              /\ IsDigitUnit(gs_replacement[i + 1])
              /\ IsDigitUnit(gs_replacement[i + 2]) ) =>
                LET d1 == gs_replacement[i + 1]
                    d2 == gs_replacement[i + 2]
                IN gs_result =
                      Expanded(i, 2,
                          CaptureOrLiteral(10 * (d1 - 48) + (d2 - 48),
                                           <<Dollar, d1, d2>>))

\* `$10` with one capture stays the text `$10`
C8_Witness ==
    /\ gs_pc = "done"
    /\ gs_replacement = <<Dollar, 49, 48>>
    /\ gs_captures = CaptureList(1, 0)
    /\ gs_result = Ok(<<Dollar, 49, 48>>)

\* C9: the one-digit rule applies when `$` is followed by a decimal digit n
\* that no other decimal digit follows: `$` n literally when n is 0 or
\* exceeds the number of captures, else captures[n-1] (nothing if absent),
\* the unit after the digit being ordinary text; with no captures a
\* template whose every `$` is followed by a digit comes out unchanged.
C9_OneDigitReference ==
    gs_pc = "done" =>
        /\ \A i \in DOMAIN gs_replacement :
              ( /\ EscapeAt(i, 1)
                /\ IsDigitUnit(gs_replacement[i + 1])
                /\ i + 2 <= Len(gs_replacement) =>
                      ~IsDigitUnit(gs_replacement[i + 2]) ) =>
                  LET d == gs_replacement[i + 1]
                  IN gs_result =
                        Expanded(i, 1, CaptureOrLiteral(d - 48, <<Dollar, d>>))
        /\ ( /\ gs_captures = <<>>
             /\ \A i \in DOMAIN gs_replacement :
                   gs_replacement[i] = Dollar =>
                       /\ i < Len(gs_replacement)
                       /\ IsDigitUnit(gs_replacement[i + 1]) )
           => gs_result = Ok(gs_replacement)

\* `$1a` with one capture "A" gives "Aa"
C9_Witness ==
    /\ gs_pc = "done"
    /\ gs_replacement = <<Dollar, 49, 97>>
    /\ gs_captures = CaptureList(1, 0)
    /\ gs_result = Ok(<<65, 97>>)

\* C10: with position + len(matched) <= len(source), `$$` gives one `$`,
\* `$&` the matched text, `$` and a backtick source[0..position], and `$'`
\* source[position+len(matched)..end].
C10_BasicEscapes ==
    (gs_pc = "done" /\ gs_position + Len(gs_matched) <= Len(gs_str)) =>
        \A i \in DOMAIN gs_replacement :
            EscapeAt(i, 1) =>
                LET c == gs_replacement[i + 1]
                IN /\ c = Dollar => gs_result = Expanded(i, 1, <<Dollar>>)
                   /\ c = Ampersand => gs_result = Expanded(i, 1, gs_matched)
                   /\ c = Backtick =>
                         gs_result =
                             Expanded(i, 1, SubSeq(gs_str, 1, gs_position))
                   /\ c = Apostrophe =>
                         gs_result =
                             Expanded(i, 1,
                                 SubSeq(gs_str,
                                        gs_position + Len(gs_matched) + 1,
                                        Len(gs_str)))

\* expand("ab", "xxabyy", 2, [], undefined, "[$&]") = "[ab]"
C10_Witness ==
    /\ gs_pc = "done"
    /\ gs_matched = <<97, 98>>
    /\ gs_str = <<120, 120, 97, 98, 121, 121>>
    /\ gs_position = 2
    /\ gs_captures = <<>>
    /\ ~gs_named_captures.def
    /\ gs_replacement = <<91, Dollar, Ampersand, 93>>
    /\ gs_result = Ok(<<91, 97, 98, 93>>)

\* the template has its first `$` at i
FirstDollarAt(i) ==
    /\ gs_replacement[i] = Dollar
    /\ NoDollar(SubSeq(gs_replacement, 1, i - 1))

\* the expansion, in the same call, of the template from unit k on
RestFrom(k) ==
    GetSubstitution(gs_matched, gs_str, gs_position, gs_captures,
                    gs_named_captures,
                    SubSeq(gs_replacement, k, Len(gs_replacement)))

\* the expected output when the escape at i stands for x and ordinary
\* processing resumes at unit k
Resumed(i, x, k) ==
    IF RestFrom(k).ok
    THEN Ok(SubSeq(gs_replacement, 1, i - 1) \o x \o RestFrom(k).val)
    ELSE RestFrom(k)

\* the template has `$<` at i
NamedAt(i) ==
    /\ FirstDollarAt(i)
    /\ i < Len(gs_replacement)
    /\ gs_replacement[i + 1] = LessThan

\* the indices of the units `>` after the `$<` at i
ClosersAfter(i) ==
    {j \in DOMAIN gs_replacement : j > i + 1 /\ gs_replacement[j] = GreaterThan}

\* C11: when named_captures is undefined, `$<` emits the two literal units
\* `$<` and consumes only those two characters; the text after them is
\* processed as ordinary template text, escapes in it included.
C11_NamedWithoutGroups ==
    (gs_pc = "done" /\ ~gs_named_captures.def) =>
        \A i \in DOMAIN gs_replacement :
            NamedAt(i) =>
                /\ gs_result.ok
                /\ gs_result = Resumed(i, <<Dollar, LessThan>>, i + 2)

\* "$<a>$&" without groups, for the match "ab", gives "$<a>ab"
C11_Witness ==
    /\ gs_pc = "done"
    /\ ~gs_named_captures.def
    /\ gs_matched = <<97, 98>>
    /\ gs_replacement = <<Dollar, LessThan, 97, GreaterThan, Dollar, Ampersand>>
    /\ gs_result = Ok(<<Dollar, LessThan, 97, GreaterThan, 97, 98>>)

StartsEscape(u) ==
    u \in {Dollar, Ampersand, Backtick, Apostrophe, LessThan} \/ IsDigitUnit(u)

\* C13: a `$` followed by a character that starts no escape, or by the end
\* of the template, is emitted as a literal `$`, and the character after it
\* contributes what it contributes as ordinary template text; a lone
\* trailing `$` gives a trailing `$`.
C13_LiteralDollar ==
    gs_pc = "done" =>
        \A i \in DOMAIN gs_replacement :
            ( /\ FirstDollarAt(i)
              /\ i < Len(gs_replacement) => ~StartsEscape(gs_replacement[i + 1]) )
            => gs_result = Resumed(i, <<Dollar>>, i + 1)

\* "a$" stays "a$"
C13_Witness ==
    /\ gs_pc = "done"
    /\ gs_replacement = <<97, Dollar>>
    /\ gs_result = Ok(<<97, Dollar>>)

Unlimited == Split(sp_this_str, sp_separator, AbsentArgument)

\* the smaller of two numbers
Least(a, b) == IF a <= b THEN a ELSE b

\* C15: for every source, every shape of separator (absent, empty,
\* non-empty) and every limit L >= 0, split returns at most L elements, and
\* they are the first min(L, n) of the n elements it returns without a
\* limit; with L = 0 the list is empty.
C15_LimitIsPrefix ==
    (sp_pc = "done" /\ sp_limit.def) =>
        /\ Len(sp_result) <= sp_limit.n
        /\ sp_result =
              SubSeq(Unlimited, 1, Least(sp_limit.n, Len(Unlimited)))
        /\ sp_limit.n = 0 => sp_result = <<>>

\* split("a,,b", ",", 2) = ["a", ""]
C15_Witness ==
    /\ sp_pc = "done"
    /\ sp_this_str = <<97, 44, 44, 98>>
    /\ sp_separator = SeparatorString(<<44>>)
    /\ sp_limit = LimitNumber(2)
    /\ sp_result = << <<97>>, <<>> >>

\* the 0-based index in the source where element k of the list r begins,
\* the elements before it each followed by the separator R
RECURSIVE ElementStart(_, _, _)
ElementStart(r, R, k) ==
    IF k = 1 THEN 0
    ELSE ElementStart(r, R, k - 1) + Len(r[k - 1]) + Len(R)

\* r is the list of the gaps of S between the leftmost non-overlapping
\* occurrences of R: each element is the text from the end of the previous
\* occurrence up to the first occurrence that starts at or after it, or up
\* to the end of S when there is none
IsGapList(S, R, r) ==
    /\ Len(r) >= 1
    /\ \A k \in 1 .. Len(r) :
          LET a == ElementStart(r, R, k)
              b == a + Len(r[k])
          IN /\ b <= Len(S)
             /\ r[k] = Slice(S, a, b)
             /\ \A q \in a .. (b - 1) : ~OccursAt(S, R, q)
             /\ IF k < Len(r) THEN OccursAt(S, R, b) ELSE b = Len(S)

\* C16: with a non-empty separator, a non-empty source and no limit, the
\* list is the gaps between the leftmost non-overlapping occurrences of the
\* separator, each search starting at the end of the previous match: k
\* occurrences give k + 1 elements, and a separator that does not occur
\* gives the source alone.
C16_GapsBetweenSeparators ==
    ( /\ sp_pc = "done"
      /\ sp_separator.def
      /\ sp_separator.s # <<>>
      /\ sp_this_str # <<>>
      /\ ~sp_limit.def ) =>
        /\ IsGapList(sp_this_str, sp_separator.s, sp_result)
        /\ (\A q \in 0 .. Len(sp_this_str) :
                ~OccursAt(sp_this_str, sp_separator.s, q))
           => sp_result = <<sp_this_str>>

\* split("a,,b", ",") = ["a", "", "b"]
C16_Witness ==
    /\ sp_pc = "done"
    /\ sp_this_str = <<97, 44, 44, 98>>
    /\ sp_separator = SeparatorString(<<44>>)
    /\ ~sp_limit.def
    /\ sp_result = << <<97>>, <<>>, <<98>> >>

\* C17: with an empty separator and a limit L > 0 the list is the first
\* min(L, len) code units of the source, each a string of one unit, the two
\* halves of a surrogate pair apart; this comes before the case of the empty
\* source, so the empty source gives the empty list.
C17_EmptySeparator ==
    ( /\ sp_pc = "done"
      /\ sp_separator.def
      /\ sp_separator.s = <<>>
      /\ sp_limit.def => sp_limit.n > 0 ) =>
        LET count == IF sp_limit.def
                     THEN Least(sp_limit.n, Len(sp_this_str))
                     ELSE Len(sp_this_str)
        IN /\ Len(sp_result) = count
           /\ \A k \in 1 .. count : sp_result[k] = <<sp_this_str[k]>>
           /\ sp_this_str = <<>> => sp_result = <<>>

\* U+1F600 followed by "a", limit 2: the two halves of the pair
C17_Witness ==
    /\ sp_pc = "done"
    /\ sp_this_str = <<55357, 56832, 97>>
    /\ sp_separator = SeparatorString(<<>>)
    /\ sp_limit = LimitNumber(2)
    /\ sp_result = << <<55357>>, <<56832>> >>

\* C18: the empty source with a non-empty separator and a limit > 0 gives
\* the list of one empty string; an undefined separator with a limit > 0
\* gives the list of the whole source.
C18_SingleElement ==
    (sp_pc = "done" /\ (sp_limit.def => sp_limit.n > 0)) =>
        /\ (sp_this_str = <<>> /\ sp_separator.def /\ sp_separator.s # <<>>)
           => sp_result = << <<>> >>
        /\ ~sp_separator.def => sp_result = <<sp_this_str>>

\* split("", ",", 1) = [""]
C18_Witness ==
    /\ sp_pc = "done"
    /\ sp_this_str = <<>>
    /\ sp_separator = SeparatorString(<<44>>)
    /\ sp_limit = LimitNumber(1)
    /\ sp_result = << <<>> >>

(***************************************************************************)
(* Properties of toLowerCase, toUpperCase and normalize.                   *)
(***************************************************************************)
\* the unpaired surrogates that decoding s yields, in order
UnpairedSurrogates(s) ==
    LET found == SelectSeq(ToCodePoints(s), LAMBDA c : ~c.uni)
    IN [k \in 1 .. Len(found) |-> found[k].cp]

\* C19: the output of toLowerCase and of toUpperCase, decoded again, holds
\* exactly the unpaired surrogates of the input, as many and in the same
\* order; toUpperCase of [0x0041, 0xD800] is [0x0041, 0xD800].
C19_SurrogatesKept ==
    (tx_pc = "done" /\ tx_op \in {"to_lowercase", "to_uppercase"}) =>
        /\ tx_result.ok
        /\ UnpairedSurrogates(tx_result.val) = UnpairedSurrogates(tx_string)

\* toUpperCase of [0x0041, 0xD800]
C19_Witness ==
    /\ tx_pc = "done"
    /\ tx_op = "to_uppercase"
    /\ tx_string = <<65, 55296>>
    /\ tx_result = Ok(<<65, 55296>>)

\* the conversion of the finished call
CallKind ==
    IF tx_op = "to_lowercase" THEN "lower"
    ELSE IF tx_op = "to_uppercase" THEN "upper"
    ELSE IF tx_form.def THEN FormKind(tx_form.s) ELSE "NFC"

\* the index of the k-th unpaired surrogate among the tokens; 0 for k = 0
\* and one past the last token when there are fewer than k
SurrogateIndex(toks, k) ==
    LET at == {j \in DOMAIN toks : ~toks[j].uni}
    IN IF k = 0 THEN 0
       ELSE IF k > Cardinality(at) THEN Len(toks) + 1
       ELSE CHOOSE j \in at : Cardinality({m \in at : m <= j}) = k

\* run k of the decoding run0, s1, run1, ..., sn, runn
RunOf(toks, k) ==
    LET from == SurrogateIndex(toks, k)
        to == SurrogateIndex(toks, k + 1)
    IN [m \in 1 .. (to - from - 1) |-> toks[from + m].cp]

\* T(run0) s1 T(run1) ... sn T(runn), in code units
RunsConverted(kind, toks) ==
    LET n == Cardinality({j \in DOMAIN toks : ~toks[j].uni})
    IN Flatten([p \in 1 .. (2 * n + 1) |->
           IF p % 2 = 1
           THEN EncodeChars(Transform(kind, RunOf(toks, (p - 1) \div 2)))
           ELSE <<toks[SurrogateIndex(toks, p \div 2)].cp>>])

\* C20: for a string that decodes to run0, s1, run1, ..., sk, runk, the
\* runs being the maximal sequences of scalar values and the s the unpaired
\* surrogates, toLowerCase, toUpperCase and normalize return
\* T(run0) s1 T(run1) ... sk T(runk): each run is converted as a whole and
\* on its own, and nothing is dropped, repeated or moved.
C20_RunsBetweenSurrogates ==
    (tx_pc = "done" /\ tx_result.ok) =>
        tx_result.val = RunsConverted(CallKind, ToCodePoints(tx_string))

\* toLowerCase of A, capital sigma, D800: the sigma ends its run
C20_Witness ==
    /\ tx_pc = "done"
    /\ tx_op = "to_lowercase"
    /\ tx_string = <<65, 931, 55296>>
    /\ tx_result = Ok(<<97, 962, 55296>>)

\* C21: normalize takes the form names NFC, NFD, NFKC and NFKD, matched
\* code unit by code unit, and an absent form, which stands for NFC; any
\* other form fails with a RangeError and gives no output, whatever the
\* string is, the empty string included.
C21_NormalizationForms ==
    (tx_pc = "done" /\ tx_op = "normalize") =>
        /\ tx_result.ok <=>
              ( \/ ~tx_form.def
                \/ tx_form.s \in {<<78, 70, 67>>, <<78, 70, 68>>,
                                  <<78, 70, 75, 67>>, <<78, 70, 75, 68>>} )
        /\ ~tx_result.ok => tx_result = Err("RangeError")
        /\ ~tx_form.def =>
              tx_result = Normalize(tx_string, FormString(<<78, 70, 67>>))

\* normalize("nfc") on the empty string fails
C21_Witness ==
    /\ tx_pc = "done"
    /\ tx_op = "normalize"
    /\ tx_string = <<>>
    /\ tx_form = FormString(<<110, 102, 99>>)
    /\ tx_result = Err("RangeError")

\* C22: normalization is idempotent on every code-unit sequence, unpaired
\* surrogates included: for each of the four forms F,
\* normalize(normalize(s, F), F) = normalize(s, F); the output of the first
\* pass decodes into the same surrogates and runs.
C22_NormalizeIdempotent ==
    (tx_pc = "done" /\ tx_op = "normalize" /\ tx_result.ok) =>
        /\ Normalize(tx_result.val, tx_form) = tx_result
        /\ UnpairedSurrogates(tx_result.val) = UnpairedSurrogates(tx_string)

\* NFC of A, D800, combining acute: the acute stays apart from the A
C22_Witness ==
    /\ tx_pc = "done"
    /\ tx_op = "normalize"
    /\ tx_form = FormString(<<78, 70, 67>>)
    /\ tx_string = <<65, 55296, 769>>
    /\ tx_result = Ok(<<65, 55296, 769>>)

(***************************************************************************)
(* Properties of the decoding into code points.                            *)
(***************************************************************************)
\* C23: decoding a code-unit sequence and encoding every token again
\* (scalar values as UTF-16, unpaired surrogates as they are) gives the
\* sequence back, sequences of surrogates only included; so
\* get_substitution returns a template without `$` unchanged.
C23_DecodeEncodeRoundTrip ==
    gs_pc = "done" =>
        /\ EncodeAll(ToCodePoints(gs_replacement), 1,
                     Len(ToCodePoints(gs_replacement))) = gs_replacement
        /\ NoDollar(gs_replacement) => gs_result = Ok(gs_replacement)

\* the template of a low surrogate, a high one and a pair comes back as it
\* is
C23_Witness ==
    /\ gs_pc = "done"
    /\ gs_replacement = <<56832, 55357, 56832>>
    /\ Len(ToCodePoints(gs_replacement)) = 2
    /\ gs_result = Ok(<<56832, 55357, 56832>>)

\* the 1-based index in the code units at which token k begins
RECURSIVE TokenStart(_, _)
TokenStart(toks, k) ==
    IF k = 1 THEN 1
    ELSE TokenStart(toks, k - 1)
             + (IF toks[k - 1].uni /\ toks[k - 1].cp >= 65536 THEN 2 ELSE 1)

\* the tokens toks cover s from left to right, each decided by the unit it
\* begins at and the unit after it
Tokenizes(s, toks) ==
    /\ TokenStart(toks, Len(toks) + 1) = Len(s) + 1
    /\ \A k \in DOMAIN toks :
          LET p == TokenStart(toks, k)
              u == s[p]
              paired == /\ u >= 55296 /\ u <= 56319
                        /\ p < Len(s)
                        /\ s[p + 1] >= 56320 /\ s[p + 1] <= 57343
          IN /\ p <= Len(s)
             /\ paired =>
                   toks[k] = [uni |-> TRUE,
                              cp |-> 65536 + (u - 55296) * 1024
                                           + (s[p + 1] - 56320)]
             /\ (~paired /\ u >= 55296 /\ u <= 57343) =>
                   toks[k] = [uni |-> FALSE, cp |-> u]
             /\ (u < 55296 \/ u > 57343) => toks[k] = [uni |-> TRUE, cp |-> u]

\* C24: decoding goes left to right and never fails: a high surrogate with
\* a low surrogate right after it is one scalar value and takes both units;
\* every other surrogate unit (a lone low one, a high one not followed by a
\* low one, a high one at the end) is an unpaired surrogate with that unit;
\* every other unit is a scalar value; so an unpaired surrogate always has
\* a value in D800..DFFF.
C24_DecoderTokens ==
    tx_pc = "done" =>
        /\ Tokenizes(tx_string, ToCodePoints(tx_string))
        /\ \A k \in DOMAIN ToCodePoints(tx_string) :
              ~ToCodePoints(tx_string)[k].uni =>
                  /\ ToCodePoints(tx_string)[k].cp >= 55296
                  /\ ToCodePoints(tx_string)[k].cp <= 57343

\* D801 DC00 D800 decodes to U+10400 and the unpaired D800
C24_Witness ==
    /\ tx_pc = "done"
    /\ tx_op = "to_lowercase"
    /\ tx_string = <<55297, 56320, 55296>>
    /\ ToCodePoints(tx_string) = <<Unicode(66560), UnpairedSurrogate(55296)>>
    /\ tx_result = Ok(<<55297, 56360, 55296>>)

(***************************************************************************)
(* Properties of indexOf, repeat and at.                                   *)
(***************************************************************************)
\* the position of the call clamped to [0, len]
Start ==
    IF cl_number.kind = "neginf" THEN 0
    ELSE IF cl_number.kind = "inf" THEN Len(cl_string)
    ELSE IF cl_number.n < 0 THEN 0
    ELSE IF cl_number.n > Len(cl_string) THEN Len(cl_string)
    ELSE cl_number.n

\* C25: the search is sound, complete and leftmost: with start the position
\* clamped to [0, len], a result p has p >= start, the search string at p,
\* and no occurrence at any q with start <= q < p; the result -1 means that
\* the search string occurs nowhere at or after start, as is always so when
\* it is longer than what is left of the string.
C25_IndexOfLeftmost ==
    (cl_pc = "done" /\ cl_op = "index_of") =>
        LET p == cl_result.n
        IN /\ cl_result.kind = "number"
           /\ p # -1 =>
                 /\ p >= Start
                 /\ OccursAt(cl_string, cl_search_str, p)
                 /\ \A q \in Start .. (p - 1) :
                       ~OccursAt(cl_string, cl_search_str, q)
           /\ p = -1 =>
                 \A q \in Start .. Len(cl_string) :
                     ~OccursAt(cl_string, cl_search_str, q)
           /\ Len(cl_search_str) > Len(cl_string) - Start => p = -1

\* "aba".indexOf("a", 1) = 2
C25_Witness ==
    /\ cl_pc = "done"
    /\ cl_op = "index_of"
    /\ cl_string = <<97, 98, 97>>
    /\ cl_search_str = <<97>>
    /\ cl_number = Integer(1)
    /\ cl_result = NumberResult(2)

\* C26: the empty search string is found at the start offset itself:
\* index_of(haystack, "", from) = from for 0 <= from <= len, and indexOf
\* with an empty search string returns the position clamped to [0, len].
C26_EmptyNeedle ==
    (cl_pc = "done" /\ cl_op = "index_of" /\ cl_search_str = <<>>) =>
        /\ cl_result = NumberResult(Start)
        /\ \A from \in 0 .. Len(cl_string) :
              StringIndexOf(cl_string, <<>>, from) = from

\* "hello".indexOf("", 2) = 2
C26_Witness ==
    /\ cl_pc = "done"
    /\ cl_op = "index_of"
    /\ cl_string = <<104, 101, 108, 108, 111>>
    /\ cl_search_str = <<>>
    /\ cl_number = Integer(2)
    /\ cl_result = NumberResult(2)

\* C28: repeat never returns a string longer than the maximum string
\* length: it fails with a RangeError when n < 0, n is +infinity or n * len
\* exceeds the maximum, also for counts whose product with len wraps around
\* in a machine word; it returns the empty string when n = 0, and n copies
\* of the string otherwise.
C28_RepeatWithinMaximum ==
    (cl_pc = "done" /\ cl_op = "repeat") =>
        LET n == cl_number.n
        IN IF \/ cl_number.kind # "int"
              \/ n < 0
              \/ n * Len(cl_string) > MAX_STRING_LENGTH
           THEN cl_result = RangeErrorResult
           ELSE /\ cl_result = StringResult(Copies(cl_string, n))
                /\ Len(cl_result.s) = n * Len(cl_string)
                /\ Len(cl_result.s) <= MAX_STRING_LENGTH

\* C29: at returns undefined for every index that cannot be found: for
\* every integer index i of the representable range, the most negative one
\* included, undefined when i >= len or len + i < 0, else the one-unit
\* string at i (i >= 0) or at len + i (i < 0); it reads nothing outside the
\* string.
C29_AtOutOfRange ==
    (cl_pc = "done" /\ cl_op = "at" /\ cl_number.kind = "int") =>
        LET i == cl_number.n
            len == Len(cl_string)
        IN IF i >= len \/ len + i < 0
           THEN cl_result = UndefinedResult
           ELSE cl_result =
                   StringResult(<<cl_string[(IF i >= 0 THEN i ELSE len + i) + 1]>>)

(***************************************************************************)
(* Further properties of replace and of split.                             *)
(***************************************************************************)
\* C27: in replace with a replaceValue that is not callable, the value is
\* converted to a string (step 6) before the first occurrence is searched
\* (step 8): the conversion happens, and a failing conversion makes replace
\* fail, also when the search string does not occur.
C27_ConversionBeforeSearch ==
    (op = "replace" /\ pc = "done" /\ ~replace_value.callable) =>
        /\ \E i \in DOMAIN trace :
              /\ trace[i] = ToStringEvent
              /\ \A j \in DOMAIN trace : trace[j].ev = "indexof" => i < j
        /\ replace_value.throws => ~ret.ok

\* the elements of r with sep between them
RECURSIVE Join(_, _)
Join(r, sep) ==
    IF r = <<>> THEN <<>>
    ELSE IF Len(r) = 1 THEN r[1]
    ELSE r[1] \o sep \o Join(Tail(r), sep)

\* C30: for every source s and every non-empty separator sep, without a
\* limit, the elements of split(s, sep) joined with sep give s back, and no
\* element contains sep.
C30_SplitJoin ==
    ( /\ sp_pc = "done"
      /\ sp_separator.def
      /\ sp_separator.s # <<>>
      /\ ~sp_limit.def ) =>
        /\ Join(sp_result, sp_separator.s) = sp_this_str
        /\ \A k \in DOMAIN sp_result :
              \A q \in 0 .. Len(sp_result[k]) :
                  ~OccursAt(sp_result[k], sp_separator.s, q)

\* ",a," split at "," is ["", "a", ""]
C30_Witness ==
    /\ sp_pc = "done"
    /\ sp_this_str = <<44, 97, 44>>
    /\ sp_separator = SeparatorString(<<44>>)
    /\ ~sp_limit.def
    /\ sp_result = << <<>>, <<97>>, <<>> >>
====
